---- MODULE Spec2Model ----
(***************************************************************************)
(* A model of the market scanner of src/streamlit/app.py: the indicator    *)
(* engine (compute_indicators), the trend classifier (classify_trend), the *)
(* signal generator (generate_signal_row), the momentum backtest           *)
(* (simple_backtest_momentum) and the two button handlers of the page      *)
(* (Run Scan, Analyze Symbol).                                             *)
(*                                                                         *)
(* Numbers.  Python floats are modelled as exact values.  A price is a     *)
(* whole number of ticks; every float the program derives from prices is   *)
(* stored as an integer number of units, Unit units to the tick, where     *)
(* Unit is a common multiple of the rolling windows (20, 50, 200, 14) and  *)
(* of 100, so that every rolling mean and the 3% fallback stop are whole   *)
(* numbers of units.  NaN is a value of its own; every comparison with it  *)
(* is false, as in IEEE arithmetic.                                        *)
(***************************************************************************)
EXTENDS Integers, Sequences, FiniteSets, TLC

VARIABLES
    rowIn,      \* generate_signal_row called alone: its arguments
    rowOut,     \* ... its result, "pending" before the call
    rowLocals   \* ... its locals stop_loss, risk_dollars, position_size at return

VARIABLES
    capital,            \* sidebar: Account Size, whole dollars
    risk_pct,           \* sidebar: Risk per Trade / 100, in thousandths
    asset_class,        \* sidebar: Asset Class
    universe_choice,    \* sidebar: Universe
    custom_symbols,     \* sidebar: Custom symbols, a sequence of characters
    listed,             \* the provider's answers for the listed symbols: three, taken in turn
    cache,              \* st.cache_data of load_history: symbol -> answer
    scanPc,             \* where the Run Scan handler is
    symbols,            \* the symbols to scan
    i,                  \* the scan loop's position in symbols (from 1)
    rows,               \* the rows collected so far
    shown,              \* what the page has shown: warning, error, table
    table,              \* the table displayed
    fetched             \* history: the symbols visited, each with the provider's answer

VARIABLES
    provided,           \* the provider's answer for the symbol of the Symbol box
    detailPc,           \* where the Analyze Symbol handler is
    bt_index,           \* simple_backtest_momentum: the index of df after dropna
    bt_i,               \* ... i of its loop (0 before the loop)
    in_trade,           \* ... in_trade
    entry_price,        \* ... entry_price
    results,            \* ... results
    stats,              \* the stats the handler got back
    entries,            \* history: the bars on which a trade was entered
    exits               \* history: the bars on which a trade was closed

rowVars == <<rowIn, rowOut, rowLocals>>
sidebarVars == <<capital, risk_pct, asset_class, universe_choice, custom_symbols>>
scanVars == <<listed, cache, scanPc, symbols, i, rows, shown, table, fetched>>
detailVars == <<provided, detailPc, bt_index, bt_i, in_trade, entry_price,
                results, stats, entries, exits>>
vars == <<rowVars, sidebarVars, scanVars, detailVars>>

-----------------------------------------------------------------------------
(* Floats *)

NaN == -2000000000

Unit == 200 * 7

IsNaN(x) == x = NaN

Lt(a, b) == ~IsNaN(a) /\ ~IsNaN(b) /\ a < b
Le(a, b) == ~IsNaN(a) /\ ~IsNaN(b) /\ a <= b
Gt(a, b) == ~IsNaN(a) /\ ~IsNaN(b) /\ a > b

Sub(a, b) == IF IsNaN(a) \/ IsNaN(b) THEN NaN ELSE a - b

Max2(a, b) == IF a >= b THEN a ELSE b
Abs(a) == IF a >= 0 THEN a ELSE -a

\* int(x) of a float n/d (d > 0): truncation toward zero.
Trunc(n, d) == IF n >= 0 THEN n \div d ELSE -((-n) \div d)

\* round(x, k) of an exact value n/d (d > 0, in units of 10^-k): the nearest
\* integer, a tie going to the even one.
RoundHalfEven(n, d) ==
    LET q == n \div d
        r == n - q * d
    IN  IF 2 * r < d THEN q
        ELSE IF 2 * r > d THEN q + 1
        ELSE IF q % 2 = 0 THEN q ELSE q + 1

-----------------------------------------------------------------------------
(* rsi14.  With up and down the sums of the gains and of the losses of the   *)
(* 14-bar window (in ticks), rs = (up/14) / (down/14 + 1e-9) and             *)
(* rsi = 100 - 100/(1 + rs) = 100*up / (up + down + 14e-9).  The value is    *)
(* kept as the pair (up, down); because up and down are whole numbers and    *)
(* the epsilon is positive and tiny, rsi >= T and rsi > T both come to       *)
(* (100-T)*up - T*down > 0 for an integer threshold T > 0.                   *)

RsiNaN == [nan |-> TRUE, up |-> 0, down |-> 0]
Rsi(up, down) == [nan |-> FALSE, up |-> up, down |-> down]

RsiMargin(rsi, T) == (100 - T) * rsi.up - T * rsi.down

RsiGe(rsi, T) == ~rsi.nan /\ RsiMargin(rsi, T) > 0
RsiLe(rsi, T) == ~rsi.nan /\ RsiMargin(rsi, T) <= 0
RsiLt(rsi, T) == ~rsi.nan /\ RsiMargin(rsi, T) <= 0

\* round(rsi, 2), in hundredths: the epsilon puts the value just under the
\* exact quotient, so an exact tie rounds down.
RoundRsi(rsi) ==
    IF rsi.up + rsi.down = 0 THEN 0
    ELSE LET d == rsi.up + rsi.down
             q == (10000 * rsi.up) \div d
             r == 10000 * rsi.up - q * d
         IN  IF 2 * r > d THEN q + 1 ELSE q

-----------------------------------------------------------------------------
(* compute_indicators.  A frame df is its length and its rows:              *)
(* [len |-> n, rows |-> the rows 1..n]; pandas' position k (from 0) is      *)
(* position k + 1 here.  A price series is a frame of bars with open, high, *)
(* low and close in ticks, real numbers all (no missing price).  The result *)
(* carries the price columns and the indicator columns in units.            *)

DataFrame(rs) == [len |-> Len(rs), rows |-> rs]

\* len(df): the length field, read without building the rows
len(df) == df["len"]

\* df.iloc[k - 1]
iloc(df, k) == df.rows[k]

SMA_SHORT == 20
SMA_MID == 50
SMA_LONG == 200
RSI_WINDOW == 14
ATR_WINDOW == 14

\* s[lo] + ... + s[hi], summed by halves
RECURSIVE SumRange(_, _, _)
SumRange(s, lo, hi) ==
    IF lo > hi THEN 0
    ELSE IF lo = hi THEN s[lo]
    ELSE SumRange(s, lo, (lo + hi) \div 2) + SumRange(s, (lo + hi) \div 2 + 1, hi)

\* s.rolling(W).mean() at position k, in units, for s in ticks: undefined
\* until W values are in the window.
rolling_mean(s, W, k) ==
    IF k < W THEN NaN ELSE SumRange(s, k - W + 1, k) * (Unit \div W)

close_col(df) == [k \in 1..len(df) |-> iloc(df, k).close]

\* delta = df["close"].diff() is NaN at the first position, where both
\* np.where tests are False and leave 0.
gain_col(df) ==
    [k \in 1..len(df) |->
        IF k > 1 /\ iloc(df, k).close - iloc(df, k - 1).close > 0
            THEN iloc(df, k).close - iloc(df, k - 1).close ELSE 0]

loss_col(df) ==
    [k \in 1..len(df) |->
        IF k > 1 /\ iloc(df, k).close - iloc(df, k - 1).close < 0
            THEN -(iloc(df, k).close - iloc(df, k - 1).close) ELSE 0]

\* rsi from pd.Series(gain).rolling(14).mean() and the same of loss
rsi_col(df, k) ==
    IF k < RSI_WINDOW THEN RsiNaN
    ELSE Rsi(SumRange(gain_col(df), k - RSI_WINDOW + 1, k),
             SumRange(loss_col(df), k - RSI_WINDOW + 1, k))

\* tr = max over [high - low, |high - close.shift()|, |low - close.shift()|],
\* skipping NaN: at the first position only high - low is defined.
tr_col(df) ==
    [k \in 1..len(df) |->
        IF k = 1 THEN iloc(df, k).high - iloc(df, k).low
        ELSE Max2(iloc(df, k).high - iloc(df, k).low,
                  Max2(Abs(iloc(df, k).high - iloc(df, k - 1).close),
                       Abs(iloc(df, k).low - iloc(df, k - 1).close)))]

indicator_row(df, k) ==
    [open |-> iloc(df, k).open * Unit,
     high |-> iloc(df, k).high * Unit,
     low |-> iloc(df, k).low * Unit,
     close |-> iloc(df, k).close * Unit,
     sma20 |-> rolling_mean(close_col(df), SMA_SHORT, k),
     sma50 |-> rolling_mean(close_col(df), SMA_MID, k),
     sma200 |-> rolling_mean(close_col(df), SMA_LONG, k),
     rsi14 |-> rsi_col(df, k),
     atr14 |-> rolling_mean(tr_col(df), ATR_WINDOW, k)]

compute_indicators(df) ==
    IF len(df) = 0 THEN df
    ELSE [len |-> len(df), rows |-> [k \in 1..len(df) |-> indicator_row(df, k)]]

-----------------------------------------------------------------------------
(* classify_trend *)

\* classify_trend with the Uptrend test lacking its sma200 <= sma50 part.
classify_trend_uptrend_unguarded(last_close, sma20, sma50, sma200) ==
    IF IsNaN(sma20) \/ IsNaN(sma50) \/ IsNaN(sma200)
        THEN "No Trend (insufficient data)"
    ELSE IF Gt(last_close, sma20) /\ Gt(sma20, sma50) /\ Gt(sma50, sma200)
        THEN "Strong Uptrend"
    ELSE IF Gt(last_close, sma20) /\ Gt(sma20, sma50)
        THEN "Uptrend"
    ELSE IF Lt(last_close, sma20) /\ Lt(sma20, sma50) /\ Lt(sma50, sma200)
        THEN "Strong Downtrend"
    ELSE IF Lt(last_close, sma20) /\ Lt(sma20, sma50)
        THEN "Downtrend"
    ELSE "Sideways / Mixed"

\* classify_trend with the Downtrend test moved ahead of the Strong Downtrend
\* test.
classify_trend_downtrend_first(last_close, sma20, sma50, sma200) ==
    IF IsNaN(sma20) \/ IsNaN(sma50) \/ IsNaN(sma200)
        THEN "No Trend (insufficient data)"
    ELSE IF Gt(last_close, sma20) /\ Gt(sma20, sma50) /\ Gt(sma50, sma200)
        THEN "Strong Uptrend"
    ELSE IF Gt(last_close, sma20) /\ Gt(sma20, sma50) /\ Le(sma200, sma50)
        THEN "Uptrend"
    ELSE IF Lt(last_close, sma20) /\ Lt(sma20, sma50)
        THEN "Downtrend"
    ELSE IF Lt(last_close, sma20) /\ Lt(sma20, sma50) /\ Lt(sma50, sma200)
        THEN "Strong Downtrend"
    ELSE "Sideways / Mixed"

classify_trend(last_close, sma20, sma50, sma200) ==
    IF IsNaN(sma20) \/ IsNaN(sma50) \/ IsNaN(sma200)
        THEN "No Trend (insufficient data)"
    ELSE IF Gt(last_close, sma20) /\ Gt(sma20, sma50) /\ Gt(sma50, sma200)
        THEN "Strong Uptrend"
    ELSE IF Gt(last_close, sma20) /\ Gt(sma20, sma50) /\ Le(sma200, sma50)
        THEN "Uptrend"
    ELSE IF Lt(last_close, sma20) /\ Lt(sma20, sma50) /\ Lt(sma50, sma200)
        THEN "Strong Downtrend"
    ELSE IF Lt(last_close, sma20) /\ Lt(sma20, sma50)
        THEN "Downtrend"
    ELSE "Sideways / Mixed"

-----------------------------------------------------------------------------
(* generate_signal_row.  df is a frame compute_indicators returned (or any  *)
(* sequence of rows with these columns); capital is in whole dollars,       *)
(* risk_pct in thousandths (0.003 is 3).                                    *)

\* The result of a call: a row, None, or an exception.
NoneResult == [kind |-> "None"]
Raised(exc) == [kind |-> "raise", exc |-> exc]

MinBars == 30

\* trend.startswith(prefix), over the six labels classify_trend returns: none
\* of them is a proper extension of "Strong Uptrend" or "Strong Downtrend".
startswith(trend, prefix) == trend = prefix

\* pct_change > 0, for (last_close - prev_close) / prev_close * 100.0 with
\* prev_close # 0.
pct_change_positive(last_close, prev_close) ==
    \/ last_close - prev_close > 0 /\ prev_close > 0
    \/ last_close - prev_close < 0 /\ prev_close < 0

\* round(pct_change, 2), in hundredths of a percent.
pct_change_rounded(last_close, prev_close) ==
    IF prev_close > 0
        THEN RoundHalfEven(10000 * (last_close - prev_close), prev_close)
        ELSE RoundHalfEven(10000 * (prev_close - last_close), -prev_close)

\* signal_logic without the pct_change > 0 test of Momentum Long.
signal_logic_any_change(trend, rsi, pct_positive, last_close, sma200) ==
    IF startswith(trend, "Strong Uptrend") /\ RsiGe(rsi, 55) /\ RsiLe(rsi, 75)
        THEN "Momentum Long"
    ELSE IF RsiLt(rsi, 30) /\ Gt(last_close, sma200)
        THEN "Oversold Watch"
    ELSE IF startswith(trend, "Strong Downtrend") /\ RsiLt(rsi, 45)
        THEN "Avoid / Short Bias"
    ELSE "No Trade"

signal_logic(trend, rsi, pct_positive, last_close, sma200) ==
    IF startswith(trend, "Strong Uptrend") /\ RsiGe(rsi, 55) /\ RsiLe(rsi, 75)
       /\ pct_positive
        THEN "Momentum Long"
    ELSE IF RsiLt(rsi, 30) /\ Gt(last_close, sma200)
        THEN "Oversold Watch"
    ELSE IF startswith(trend, "Strong Downtrend") /\ RsiLt(rsi, 45)
        THEN "Avoid / Short Bias"
    ELSE "No Trade"

\* stop_distance taking atr when atr >= 0.
stop_distance_zero_atr(last_close, atr) ==
    IF Gt(atr, 0) \/ atr = 0 THEN atr ELSE (last_close * 3) \div 100

\* atr if atr > 0 else last_close * 0.03
stop_distance(last_close, atr) ==
    IF Gt(atr, 0) THEN atr ELSE (last_close * 3) \div 100

\* [stop_loss, risk_dollars (thousandths of a dollar), position_size (units,
\* after int())]
risk_management(last_close, atr, cap, risk) ==
    LET stop_loss == last_close - stop_distance(last_close, atr)
    IN  IF stop_loss <= 0
            THEN [stop_loss |-> stop_loss, risk_dollars |-> 0, position_size |-> 0]
            ELSE [stop_loss |-> stop_loss,
                  risk_dollars |-> cap * risk,
                  position_size |->
                      IF last_close - stop_loss > 0
                          THEN Trunc(cap * risk * Unit,
                                     1000 * (last_close - stop_loss))
                          ELSE 0]

\* the row of generate_signal_row, from last = df.iloc[-1] and prev = df.iloc[-2]
signal_row(symbol, last, prev, cap, risk) ==
    LET last_close == last.close
        trend == classify_trend(last_close, last.sma20, last.sma50, last.sma200)
        signal == signal_logic(trend, last.rsi14,
                               pct_change_positive(last_close, prev.close),
                               last_close, last.sma200)
        rm == risk_management(last_close, last.atr14, cap, risk)
    IN  [kind |-> "row",
         Symbol |-> symbol,
         LastPrice |-> RoundHalfEven(last_close * 50, 7),
         Pct1D |-> pct_change_rounded(last_close, prev.close),
         RSI14 |-> IF last.rsi14.nan THEN NaN ELSE RoundRsi(last.rsi14),
         Trend |-> trend,
         Signal |-> signal,
         ATR14 |-> IF IsNaN(last.atr14) THEN NaN
                   ELSE RoundHalfEven(last.atr14 * 50, 7),
         SuggestedStop |-> RoundHalfEven(rm.stop_loss * 50, 7),
         RiskDollars |-> RoundHalfEven(rm.risk_dollars, 10),
         Size |-> rm.position_size]

generate_signal_row(symbol, df, cap, risk) ==
    IF len(df) < MinBars THEN NoneResult
    ELSE IF iloc(df, len(df) - 1).close = 0 THEN Raised("ZeroDivisionError")
    ELSE signal_row(symbol, iloc(df, len(df)), iloc(df, len(df) - 1), cap, risk)

-----------------------------------------------------------------------------
(* The price history provider (yfinance behind load_history).  An answer is  *)
(* an exception, an empty frame, a frame without the price columns, or a     *)
(* series of bars.  A series is given by its closes: two zigzag legs and a   *)
(* free tail of day-to-day moves; each bar opens at the previous close and   *)
(* its high and low are the larger and the smaller of open and close.        *)

\* position k of a zigzag from start whose moves alternate a, b, a, b, ...
zz(k, start, a, b) ==
    start + ((k - 1) \div 2) * (a + b) + (IF k % 2 = 0 THEN a ELSE 0)

Series(n1, n2, start, a, b, c, d, tail) ==
    [kind |-> "series", n1 |-> n1, n2 |-> n2, start |-> start,
     a |-> a, b |-> b, c |-> c, d |-> d, tail |-> tail]

series_len(ans) == ans.n1 + ans.n2 + Len(ans.tail)

close_at(ans, k) ==
    IF k <= ans.n1 THEN zz(k, ans.start, ans.a, ans.b)
    ELSE IF k <= ans.n1 + ans.n2
        THEN zz(k - ans.n1 + 1, zz(ans.n1, ans.start, ans.a, ans.b), ans.c, ans.d)
    ELSE zz(ans.n2 + 1, zz(ans.n1, ans.start, ans.a, ans.b), ans.c, ans.d)
         + SumRange(ans.tail, 1, k - ans.n1 - ans.n2)

bar_at(ans, k) ==
    LET c == close_at(ans, k)
        o == IF k = 1 THEN c ELSE close_at(ans, k - 1)
    IN  [open |-> o, high |-> Max2(o, c), low |-> IF o <= c THEN o ELSE c,
         close |-> c]

\* the bars lo..hi of the series, in order
RECURSIVE bars_between(_, _, _)
bars_between(ans, lo, hi) ==
    IF lo > hi THEN <<>>
    ELSE IF lo = hi THEN <<bar_at(ans, lo)>>
    ELSE bars_between(ans, lo, (lo + hi) \div 2)
         \o bars_between(ans, (lo + hi) \div 2 + 1, hi)

bars(ans) == DataFrame(bars_between(ans, 1, series_len(ans)))

\* load_history: the provider's exception, or the frame it returned
\* (df.empty frames are returned as they are).
load_history(ans) ==
    IF ans.kind = "raise" THEN Raised("Exception")
    ELSE IF ans.kind = "empty"
        THEN [kind |-> "df", columns |-> TRUE, data |-> DataFrame(<<>>)]
    ELSE IF ans.kind = "malformed"
        THEN [kind |-> "df", columns |-> FALSE, data |-> DataFrame(<<[volume |-> 0]>>)]
    ELSE [kind |-> "df", columns |-> TRUE, data |-> bars(ans)]

-----------------------------------------------------------------------------
(* The Run Scan handler: symbol selection, the scan loop, the ranking.       *)
(* A symbol is the sequence of its pieces of text: a listed ticker is one    *)
(* piece, a custom symbol is its characters.                                 *)

STOCK_UNIVERSE ==
    << <<"AAPL">>, <<"MSFT">>, <<"NVDA">>, <<"TSLA">>, <<"AMZN">>, <<"META">>,
       <<"GOOGL">>, <<"NFLX">>, <<"AMD">>, <<"AVGO">>, <<"SMCI">>, <<"INTC">>,
       <<"SPY">>, <<"QQQ">>, <<"IWM">>, <<"XLK">>, <<"XLF">>, <<"XLE">>, <<"XLV">> >>

CRYPTO_UNIVERSE ==
    << <<"BTC-USD">>, <<"ETH-USD">>, <<"SOL-USD">>, <<"BNB-USD">>, <<"XRP-USD">>,
       <<"DOGE-USD">>, <<"SHIB-USD">>, <<"PEPE-USD">>, <<"BONK-USD">> >>

RECURSIVE lstrip(_)
lstrip(str) ==
    IF str = <<>> THEN str
    ELSE IF Head(str) = " " THEN lstrip(Tail(str)) ELSE str

RECURSIVE rstrip(_)
rstrip(str) ==
    IF str = <<>> THEN str
    ELSE IF str[Len(str)] = " " THEN rstrip(SubSeq(str, 1, Len(str) - 1)) ELSE str

\* str.strip()
strip(str) == rstrip(lstrip(str))

\* str.split(","): the pieces between the commas, the empty ones included
RECURSIVE split(_)
split(str) ==
    IF str = <<>> THEN << <<>> >>
    ELSE LET rest == split(Tail(str))
         IN  IF Head(str) = "," THEN << <<>> >> \o rest
             ELSE << <<Head(str)>> \o Head(rest) >> \o Tail(rest)

RECURSIVE strip_all(_)
strip_all(parts) ==
    IF parts = <<>> THEN <<>>
    ELSE <<strip(Head(parts))>> \o strip_all(Tail(parts))

\* [s.strip() for s in custom_symbols.split(",") if s.strip()]
raw_symbols(str) ==
    LET nonempty(part) == part # <<>>
    IN  SelectSeq(strip_all(split(str)), nonempty)

\* the symbols of a run, and whether the warning is shown
select_symbols(universe, asset, custom) ==
    IF universe = "Default (liquid names)"
        THEN [symbols |-> IF asset = "Stocks" THEN STOCK_UNIVERSE ELSE CRYPTO_UNIVERSE,
              warning |-> FALSE]
    ELSE IF strip(custom) = <<>>
        THEN [symbols |-> <<>>, warning |-> TRUE]
    ELSE [symbols |-> raw_symbols(custom), warning |-> FALSE]

\* the try block of the loop (lines 279-287) on what load_history gave: the
\* provider's exception passes through; an empty frame goes through
\* compute_indicators as it is; a frame without a close column raises KeyError
try_block(sym, loaded, cap, risk) ==
    IF loaded.kind = "raise" THEN loaded
    ELSE IF len(loaded.data) = 0
        THEN generate_signal_row(sym, compute_indicators(loaded.data), cap, risk)
    ELSE IF ~loaded.columns THEN Raised("KeyError")
    ELSE generate_signal_row(sym, compute_indicators(loaded.data), cap, risk)

\* an except clause that catches KeyError alone
except_KeyError(exc) == exc = "KeyError"

\* except Exception: the exceptions the clause catches
except_Exception(exc) == exc \in {"Exception", "KeyError", "ZeroDivisionError"}

\* .map({...}).fillna(4)
SignalRank(signal) ==
    CASE signal = "Momentum Long" -> 0
      [] signal = "Oversold Watch" -> 1
      [] signal = "Avoid / Short Bias" -> 2
      [] signal = "No Trade" -> 3
      [] OTHER -> 4

\* sorts_before with 1D % ascending
sorts_before_pct_ascending(a, b) ==
    \/ SignalRank(a.Signal) < SignalRank(b.Signal)
    \/ SignalRank(a.Signal) = SignalRank(b.Signal) /\ a.Pct1D < b.Pct1D

\* row a sorts strictly before row b: SignalRank ascending, then 1D % descending
sorts_before(a, b) ==
    \/ SignalRank(a.Signal) < SignalRank(b.Signal)
    \/ SignalRank(a.Signal) = SignalRank(b.Signal) /\ a.Pct1D > b.Pct1D

\* row r put into the sorted sequence t after every row that does not sort
\* after it
RECURSIVE insert_sorted(_, _)
insert_sorted(t, r) ==
    IF t = <<>> THEN <<r>>
    ELSE IF sorts_before(r, Head(t)) THEN <<r>> \o t
    ELSE <<Head(t)>> \o insert_sorted(Tail(t), r)

\* sort_values(["SignalRank", "1D %"], ascending=[True, False]): a sort on
\* several columns is a stable lexicographic sort, rows with equal keys keep
\* the order they came in
RECURSIVE sort_values(_)
sort_values(rs) ==
    IF rs = <<>> THEN <<>>
    ELSE insert_sorted(sort_values(SubSeq(rs, 1, Len(rs) - 1)), rs[Len(rs)])

-----------------------------------------------------------------------------
(* simple_backtest_momentum, on the frame of prices df.  The handler passes  *)
(* the frame compute_indicators returned; compute_indicators(df) inside the  *)
(* function computes the same columns again from the same prices.            *)

MinBacktestBars == 60

\* {"Trades": 0, "Win %": np.nan, "Avg R": np.nan, "Total R": np.nan}
NaNStats == [Trades |-> 0, WinPct |-> NaN, AvgR |-> NaN, TotalR |-> NaN]

\* entry_price = None
NoEntry == NaN

\* df.dropna(subset=["sma20", "sma50", "sma200", "rsi14"]) of the frame with
\* indicators: the positions lo..hi that are kept, in order
RECURSIVE dropna(_, _, _)
dropna(df, lo, hi) ==
    IF lo > hi THEN <<>>
    ELSE IF lo = hi
        THEN IF \/ IsNaN(rolling_mean(close_col(df), SMA_LONG, lo))
                \/ IsNaN(rolling_mean(close_col(df), SMA_MID, lo))
                \/ IsNaN(rolling_mean(close_col(df), SMA_SHORT, lo))
                \/ rsi_col(df, lo).nan
                 THEN <<>> ELSE <<lo>>
    ELSE dropna(df, lo, (lo + hi) \div 2) \o dropna(df, (lo + hi) \div 2 + 1, hi)

momentum_cond(row_prev) ==
    /\ startswith(classify_trend(row_prev.close, row_prev.sma20, row_prev.sma50,
                                 row_prev.sma200), "Strong Uptrend")
    /\ RsiGe(row_prev.rsi14, 55) /\ RsiLe(row_prev.rsi14, 75)
    /\ 1000 * row_prev.close > 995 * row_prev.close

exit_cond(row) == Lt(row.close, row.sma20) \/ RsiLt(row.rsi14, 50)

\* r = (exit_price - entry_price) / entry_price, as a fraction of whole ticks
trade_return(exit_price, entry) ==
    [num |-> (exit_price - entry) \div Unit, den |-> entry \div Unit]

\* the loop body without the continue after an entry: the exit test runs on
\* the entry bar too
loop_body_no_continue(st, row_prev, row) ==
    LET entering == ~st.in_trade /\ momentum_cond(row_prev)
        held == st.in_trade \/ entering
        price == IF entering THEN row.open ELSE st.entry_price
    IN  IF held /\ exit_cond(row)
            THEN [in_trade |-> FALSE, entry_price |-> NoEntry,
                  results |-> Append(st.results, trade_return(row.close, price))]
            ELSE [in_trade |-> held, entry_price |-> price, results |-> st.results]

\* one turn of for i in range(1, len(df)), on the loop's variables st
loop_body(st, row_prev, row) ==
    IF ~st.in_trade /\ momentum_cond(row_prev)
        THEN [in_trade |-> TRUE, entry_price |-> row.open, results |-> st.results]
    ELSE IF st.in_trade /\ exit_cond(row)
        THEN [in_trade |-> FALSE, entry_price |-> NoEntry,
              results |-> Append(st.results,
                                 trade_return(row.close, st.entry_price))]
    ELSE st

\* np.sum(results), as a fraction
RECURSIVE sum_results(_)
sum_results(rs) ==
    IF rs = <<>> THEN [num |-> 0, den |-> 1]
    ELSE LET rest == sum_results(Tail(rs))
         IN  [num |-> Head(rs).num * rest.den + rest.num * Head(rs).den,
              den |-> Head(rs).den * rest.den]

\* the stats after the loop: Win % in tenths, Avg R and Total R in thousandths
backtest_stats(rs) ==
    IF rs = <<>> THEN NaNStats
    ELSE LET trades == Len(rs)
             wins == Cardinality({k \in 1..trades : rs[k].num * rs[k].den > 0})
             total == sum_results(rs)
         IN  [Trades |-> trades,
              WinPct |-> RoundHalfEven(1000 * wins, trades),
              AvgR |-> RoundHalfEven(1000 * total.num, total.den * trades),
              TotalR |-> RoundHalfEven(1000 * total.num, total.den)]

-----------------------------------------------------------------------------
(* generate_signal_row called on its own, on every last row of the bounded   *)
(* sets below (the indicator fields may be undefined, as last.get allows).   *)

MaxLevel == 4       \* prices and moving averages: 1..MaxLevel ticks
MaxMove == 3        \* rsi14: gain and loss sums 0..MaxMove

Pending == [kind |-> "pending"]
NoLocals == [stop_loss |-> 0, risk_dollars |-> 0, position_size |-> 0]

Levels == {t * Unit : t \in 1..MaxLevel}
SmaValues == {NaN} \cup Levels
RsiValues == {RsiNaN} \cup {Rsi(u, d) : u \in 0..MaxMove, d \in 0..MaxMove}
\* atr14: undefined, zero, half a tick, whole ticks
AtrValues == {NaN, 0, Unit \div 2} \cup Levels
\* the sidebar's Account Size (min_value 1000.0, value 25000.0) and Risk per
\* Trade (0.1% to 5.0%, value 0.5%), and the 0.003 of the sizing scenario
CapitalValues == {1000, 1234, 25000}
RiskValues == {1, 3, 5, 50}

RowArgs(df_len, close, prev_close, sma20, sma50, sma200, rsi14, atr14, cap, risk) ==
    [df_len |-> df_len,
     last |-> [close |-> close, sma20 |-> sma20, sma50 |-> sma50,
               sma200 |-> sma200, rsi14 |-> rsi14, atr14 |-> atr14],
     prev |-> [close |-> prev_close, sma20 |-> NaN, sma50 |-> NaN,
               sma200 |-> NaN, rsi14 |-> RsiNaN, atr14 |-> NaN],
     capital |-> cap, risk_pct |-> risk]

\* the frame of the arguments: df_len rows, of which the last two are read
RowFrame(args) ==
    [len |-> args.df_len,
     rows |-> [k \in 1..args.df_len |->
                  IF k = args.df_len THEN args.last ELSE args.prev]]

\* the inputs the signal depends on, with the sizing inputs at their defaults
SignalInputs ==
    {RowArgs(MinBars, c, p, s20, s50, s200, r, NaN, 25000, 5) :
        c \in Levels, p \in {0} \cup Levels,
        s20 \in SmaValues, s50 \in SmaValues, s200 \in SmaValues, r \in RsiValues}

\* the inputs the sizing depends on, with the series length around the guard
SizingInputs ==
    {RowArgs(n, c, Unit, NaN, NaN, NaN, RsiNaN, a, cap, risk) :
        n \in {0, MinBars - 1, MinBars, MinBars + 1},
        c \in Levels \cup {100 * Unit}, a \in AtrValues \cup {2 * Unit},
        cap \in CapitalValues, risk \in RiskValues}

RowAtRest ==
    /\ rowIn = RowArgs(0, Unit, Unit, NaN, NaN, NaN, RsiNaN, NaN, 25000, 5)
    /\ rowOut = Pending
    /\ rowLocals = NoLocals

-----------------------------------------------------------------------------
(* Run Scan pressed once, with Account Size and Risk per Trade at their      *)
(* default values, on every universe, custom input and provider answer of    *)
(* the bounded sets below.                                                   *)

MaxInputLen == 3    \* custom symbols: at most MaxInputLen characters

Chars == {" ", ",", "A", "B"}

RECURSIVE Strings(_)
Strings(n) ==
    IF n = 0 THEN {<<>>}
    ELSE Strings(n - 1) \cup
         {<<c>> \o str : c \in Chars, str \in {x \in Strings(n - 1) : Len(x) = n - 1}}

Answer(kind) == [Series(0, 0, 0, 0, 0, 0, 0, <<>>) EXCEPT !.kind = kind]

\* the series the provider may answer with: a 200-bar rising zigzag ending on
\* an up day (twice, at two price levels) and a 201-bar one ending on a down
\* day, a falling zigzag, a rise that ends in a 14-bar slide, 29 bars, 30 flat
\* bars, and 31 bars whose last but one close is zero
ScanSeries ==
    {Series(200, 0, 10, 3, -1, 0, 0, <<>>),
     Series(200, 0, 50, 3, -1, 0, 0, <<>>),
     Series(201, 0, 10, 3, -1, 0, 0, <<>>),
     Series(200, 0, 700, -3, 1, 0, 0, <<>>),
     Series(186, 14, 10, 3, -1, -3, 1, <<>>),
     Series(MinBars - 1, 0, 10, 3, -1, 0, 0, <<>>),
     Series(MinBars, 0, 5, 0, 0, 0, 0, <<>>),
     Series(MinBars + 1, 0, 1, -1, 1, 0, 0, <<>>)}

Answers == {Answer("raise"), Answer("empty"), Answer("malformed")} \cup ScanSeries

NoAnswers == [sym \in {} |-> Answer("empty")]

\* what the provider holds for the listed symbols: three answers, taken in
\* turn along the universe
NothingListed == <<Answer("empty"), Answer("empty"), Answer("empty")>>

\* the Analyze Symbol handler not in play
DetailAtRest ==
    /\ provided = Answer("empty") /\ detailPc = "off"
    /\ bt_index = <<>> /\ bt_i = 0
    /\ in_trade = FALSE /\ entry_price = NoEntry /\ results = <<>>
    /\ stats = NaNStats /\ entries = <<>> /\ exits = <<>>

ScanAtRest ==
    /\ capital = 25000 /\ risk_pct = 5
    /\ asset_class = "Stocks" /\ universe_choice = "Default (liquid names)"
    /\ custom_symbols = <<>>
    /\ listed = NothingListed /\ cache = NoAnswers
    /\ scanPc = "off" /\ symbols = <<>> /\ i = 0 /\ rows = <<>>
    /\ shown = {} /\ table = <<>> /\ fetched = <<>>

Init ==
    /\ capital = 25000 /\ risk_pct = 5
    /\ asset_class \in {"Stocks", "Crypto"}
    /\ universe_choice \in {"Default (liquid names)", "Custom symbols"}
    /\ custom_symbols \in Strings(MaxInputLen)
    /\ universe_choice = "Default (liquid names)" => custom_symbols = <<>>
    /\ listed \in Answers \X Answers \X Answers
    /\ universe_choice = "Custom symbols" =>
           asset_class = "Stocks" /\ listed = NothingListed
    /\ cache = NoAnswers
    /\ scanPc = "idle"
    /\ symbols = <<>> /\ i = 0 /\ rows = <<>>
    /\ shown = {} /\ table = <<>> /\ fetched = <<>>
    /\ RowAtRest
    /\ DetailAtRest

\* if run_scan: ... symbols; st.warning; st.stop() (lines 257-275)
RunScan ==
    /\ scanPc = "idle"
    /\ LET sel == select_symbols(universe_choice, asset_class, custom_symbols)
       IN  /\ symbols' = sel.symbols
           /\ shown' = IF sel.warning THEN shown \cup {"warning"} ELSE shown
           /\ scanPc' = IF sel.symbols = <<>> THEN "stopped" ELSE "loop"
    /\ rows' = <<>>
    /\ i' = 1
    /\ UNCHANGED <<listed, cache, table, fetched, sidebarVars, rowVars, detailVars>>

\* what the provider answers for sym: the cached frame, else a fresh answer
ProviderAnswers(sym) ==
    IF sym \in DOMAIN cache THEN {cache[sym]}
    ELSE IF universe_choice = "Default (liquid names)"
        THEN {listed[(i % Len(listed)) + 1]}
    ELSE Answers

\* one turn of for i, sym in enumerate(symbols) (lines 277-289)
ScanSymbol ==
    /\ scanPc = "loop"
    /\ i <= Len(symbols)
    /\ \E ans \in ProviderAnswers(symbols[i]) :
        \E sym \in {symbols[i]} :
        \E loaded \in {load_history(ans)} :
        \E row \in {try_block(sym, loaded, capital, risk_pct)} :
            /\ fetched' = Append(fetched, [sym |-> sym, ans |-> ans])
            /\ cache' = IF ans.kind = "raise" THEN cache ELSE (sym :> ans) @@ cache
            /\ IF row.kind = "raise" /\ ~except_Exception(row.exc)
                   THEN scanPc' = "crashed" /\ UNCHANGED <<rows, i>>
                   ELSE /\ rows' = IF row.kind = "row" THEN Append(rows, row) ELSE rows
                        /\ i' = i + 1
                        /\ UNCHANGED scanPc
    /\ UNCHANGED <<listed, symbols, shown, table, sidebarVars, rowVars, detailVars>>

\* after the loop: st.error, or the ranked table (lines 291-313)
FinishScan ==
    /\ scanPc = "loop"
    /\ i > Len(symbols)
    /\ IF rows = <<>>
           THEN shown' = shown \cup {"error"} /\ table' = <<>>
           ELSE shown' = shown \cup {"table"} /\ table' = sort_values(rows)
    /\ scanPc' = "done"
    /\ UNCHANGED <<listed, cache, symbols, i, rows, fetched, sidebarVars, rowVars, detailVars>>

Next == RunScan \/ ScanSymbol \/ FinishScan

Spec == Init /\ [][Next]_vars

-----------------------------------------------------------------------------
(* Claims on the Run Scan handler (specification Spec) *)

\* the pipeline of a symbol fails on: an exception while fetching, an empty
\* provider series, an exception while computing indicators, fewer than 30
\* bars, an exception while generating the row (previous close 0)
Failed(ans) ==
    \/ ans.kind \in {"raise", "empty", "malformed"}
    \/ ans.kind = "series" /\ series_len(ans) < 30
    \/ ans.kind = "series" /\ series_len(ans) >= 30
       /\ close_at(ans, series_len(ans) - 1) = 0

\* the symbols of the visits whose pipeline succeeded, in the order visited
RECURSIVE Succeeded(_)
Succeeded(visits) ==
    IF visits = <<>> THEN <<>>
    ELSE LET v == visits[Len(visits)]
             before == Succeeded(SubSeq(visits, 1, Len(visits) - 1))
         IN  IF Failed(v.ans) THEN before ELSE Append(before, v.sym)

\* C2: whatever each symbol's outcome, no exception escapes the scan loop, the
\* loop visits every symbol of the list in order, and the result set holds
\* one row for each visit whose pipeline succeeded and none for the others.
C2_ScanSkipsFailures ==
    /\ scanPc # "crashed"
    /\ Len(fetched) <= Len(symbols)
    /\ \A k \in 1..Len(fetched) : fetched[k].sym = symbols[k]
    /\ scanPc = "done" => Len(fetched) = Len(symbols)
    /\ [k \in 1..Len(rows) |-> rows[k].Symbol] = Succeeded(fetched)

\* a finished scan of two symbols: the first raised while fetching, the second
\* gave a row
C2_Witness ==
    /\ scanPc = "done"
    /\ Len(fetched) = 2
    /\ fetched[1].ans.kind = "raise"
    /\ ~Failed(fetched[2].ans)
    /\ Len(rows) = 1 /\ rows[1].Symbol = fetched[2].sym

\* the number of times row r occurs in t
RECURSIVE Count(_, _)
Count(t, r) ==
    IF t = <<>> THEN 0
    ELSE (IF Head(t) = r THEN 1 ELSE 0) + Count(Tail(t), r)

\* C6: the table a scan shows holds the rows of the scan, ordered by signal
\* priority ascending (Momentum Long 0, Oversold Watch 1, Avoid / Short Bias 2,
\* No Trade 3) and, among equal priorities, by percent change descending: of
\* two adjacent rows the earlier has the lower priority number, or the same
\* one and a percent change greater or equal.
C6_TableRanked ==
    scanPc = "done" /\ "table" \in shown =>
        /\ Len(table) = Len(rows)
        /\ \A k \in 1..Len(rows) : Count(table, rows[k]) = Count(rows, rows[k])
        /\ \A k \in 1..(Len(table) - 1) :
            LET earlier == SignalRank(table[k].Signal)
                later == SignalRank(table[k + 1].Signal)
            IN  \/ earlier < later
                \/ earlier = later /\ table[k].Pct1D >= table[k + 1].Pct1D
        /\ \A k \in 1..Len(table) :
            SignalRank(table[k].Signal) =
                CASE table[k].Signal = "Momentum Long" -> 0
                  [] table[k].Signal = "Oversold Watch" -> 1
                  [] table[k].Signal = "Avoid / Short Bias" -> 2
                  [] table[k].Signal = "No Trade" -> 3

\* a table of the whole universe that the sort had to rearrange, with two
\* priorities and two percent changes within one priority
C6_Witness ==
    /\ scanPc = "done" /\ "table" \in shown
    /\ Len(table) = Len(STOCK_UNIVERSE)
    /\ table # rows
    /\ \E k \in 1..(Len(table) - 1) :
        SignalRank(table[k].Signal) < SignalRank(table[k + 1].Signal)
    /\ \E k \in 1..(Len(table) - 1) :
        /\ table[k].Signal = table[k + 1].Signal
        /\ table[k].Pct1D > table[k + 1].Pct1D

\* the rows with those at positions k and k + 1 in each other's place
swapped(rs, k) ==
    [j \in 1..Len(rs) |-> IF j = k THEN rs[k + 1] ELSE IF j = k + 1 THEN rs[k] ELSE rs[j]]

\* C7: the ranked output does not depend on arrival order: the rows of a scan
\* appended with two neighbours in the other order rank to the same table.
C7_ArrivalOrderIrrelevant ==
    scanPc = "done" /\ "table" \in shown =>
        \A k \in 1..(Len(rows) - 1) : sort_values(swapped(rows, k)) = table

\* C10: Run Scan pressed with the Custom symbols universe and an input that
\* yields no symbol: a warning is shown, no symbol is fetched, and the scan
\* stops.
C10_WarningWhenNoSymbol ==
    /\ universe_choice = "Custom symbols"
    /\ raw_symbols(custom_symbols) = <<>>
    /\ scanPc # "idle"
    => /\ "warning" \in shown
       /\ fetched = <<>>
       /\ scanPc = "stopped"

-----------------------------------------------------------------------------
(* Analyze Symbol pressed once, on every provider answer of the bounded set  *)
(* below: a 200-bar rising zigzag followed by up to MaxTail bars that each   *)
(* move by one of Deltas, and zigzags of the lengths around the two 60-bar   *)
(* marks.                                                                    *)

MaxTail == 5

Deltas == {-30, -1, 30}

RECURSIVE Tails(_)
Tails(n) ==
    IF n = 0 THEN {<<>>}
    ELSE Tails(n - 1) \cup
         {Append(t, d) : t \in {x \in Tails(n - 1) : Len(x) = n - 1}, d \in Deltas}

DetailAnswers ==
    {Answer("raise"), Answer("empty"), Answer("malformed")}
    \cup {Series(SMA_LONG, 0, 10, 3, -1, 0, 0, tail) : tail \in Tails(MaxTail)}
    \cup {Series(n, 0, 10, 3, -1, 0, 0, <<>>) :
            n \in {MinBacktestBars - 1, MinBacktestBars,
                   SMA_LONG + MinBacktestBars - 2, SMA_LONG + MinBacktestBars - 1}}

InitDetail ==
    /\ provided \in DetailAnswers
    /\ detailPc = "idle"
    /\ bt_index = <<>> /\ bt_i = 0
    /\ in_trade = FALSE /\ entry_price = NoEntry /\ results = <<>>
    /\ stats = NaNStats /\ entries = <<>> /\ exits = <<>>
    /\ RowAtRest
    /\ ScanAtRest

\* if st.button("Analyze Symbol"): load_history, st.error or compute_indicators
\* and the metrics, then simple_backtest_momentum up to its loop (lines 329-348
\* and 165-174)
AnalyzeSymbol ==
    /\ detailPc = "idle"
    /\ \E loaded \in {load_history(provided)} :
        IF loaded.kind = "raise"
            THEN detailPc' = "crashed" /\ UNCHANGED <<bt_index, bt_i, stats>>
        ELSE IF len(loaded.data) = 0
            THEN detailPc' = "error" /\ UNCHANGED <<bt_index, bt_i, stats>>
        ELSE IF ~loaded.columns
            THEN detailPc' = "crashed" /\ UNCHANGED <<bt_index, bt_i, stats>>
        ELSE IF len(loaded.data) < MinBacktestBars
            THEN /\ stats' = NaNStats
                 /\ detailPc' = "done"
                 /\ UNCHANGED <<bt_index, bt_i>>
        ELSE /\ bt_index' = dropna(loaded.data, 1, len(loaded.data))
             /\ bt_i' = 1
             /\ detailPc' = "replay"
             /\ UNCHANGED stats
    /\ in_trade' = FALSE /\ entry_price' = NoEntry /\ results' = <<>>
    /\ UNCHANGED <<provided, entries, exits, rowVars, sidebarVars, scanVars>>

\* one turn of for i in range(1, len(df)) (lines 176-200); row i of the frame
\* after dropna is the bar bt_index[i + 1]
BacktestBar ==
    /\ detailPc = "replay"
    /\ bt_i < Len(bt_index)
    /\ \E df \in {load_history(provided).data} :
        \E row_prev \in {iloc(compute_indicators(df), bt_index[bt_i])} :
        \E row \in {iloc(compute_indicators(df), bt_index[bt_i + 1])} :
        \E st \in {loop_body([in_trade |-> in_trade, entry_price |-> entry_price,
                              results |-> results], row_prev, row)} :
            /\ in_trade' = st.in_trade
            /\ entry_price' = st.entry_price
            /\ results' = st.results
            /\ entries' = IF ~in_trade /\ (st.in_trade \/ st.results # results)
                              THEN Append(entries, bt_index[bt_i + 1])
                              ELSE entries
            /\ exits' = IF st.results # results
                            THEN Append(exits, bt_index[bt_i + 1])
                            ELSE exits
    /\ bt_i' = bt_i + 1
    /\ UNCHANGED <<provided, detailPc, bt_index, stats, rowVars, sidebarVars, scanVars>>

\* after the loop: the stats (lines 202-216)
BacktestStats ==
    /\ detailPc = "replay"
    /\ bt_i >= Len(bt_index)
    /\ stats' = backtest_stats(results)
    /\ detailPc' = "done"
    /\ UNCHANGED <<provided, bt_index, bt_i, in_trade, entry_price, results,
                   entries, exits, rowVars, sidebarVars, scanVars>>

NextDetail == AnalyzeSymbol \/ BacktestBar \/ BacktestStats

SpecDetail == InitDetail /\ [][NextDetail]_vars

-----------------------------------------------------------------------------
(* Claims on the Analyze Symbol handler (specification SpecDetail) *)

\* the closes of the series provided, in ticks
Closes == [m \in 1..series_len(provided) |-> close_at(provided, m)]

\* the gains and the losses of the closes
Gains == [m \in 1..series_len(provided) |->
            IF m > 1 /\ Closes[m] > Closes[m - 1] THEN Closes[m] - Closes[m - 1] ELSE 0]
Losses == [m \in 1..series_len(provided) |->
            IF m > 1 /\ Closes[m] < Closes[m - 1] THEN Closes[m - 1] - Closes[m] ELSE 0]

\* bar m closes under the mean of its last 20 closes, or its rsi14 is under
\* 50: the gains of its last 14 bars do not exceed the losses
ExitAt(m) ==
    \/ m >= 20 /\ 20 * Closes[m] < SumRange(Closes, m - 19, m)
    \/ m >= 14 /\ SumRange(Gains, m - 13, m) <= SumRange(Losses, m - 13, m)

\* C1: at most one trade is open at any bar; a trade entered on bar i is
\* closed on the earliest bar j > i with close < sma20 or rsi14 < 50, never on
\* bar i; a trade with no such bar before the series ends stays open and adds
\* nothing to the trade count or the returns.
C1_OneTradeAtATime ==
    /\ Len(entries) - Len(exits) \in {0, 1}
    /\ in_trade <=> Len(entries) = Len(exits) + 1
    /\ \A k \in 1..Len(exits) :
        /\ entries[k] < exits[k]
        /\ ExitAt(exits[k])
        /\ \A m \in (entries[k] + 1)..(exits[k] - 1) : ~ExitAt(m)
        /\ results[k] = [num |-> Closes[exits[k]] - Closes[entries[k] - 1],
                         den |-> Closes[entries[k] - 1]]
    /\ \A k \in 1..(Len(entries) - 1) : exits[k] < entries[k + 1]
    /\ in_trade =>
        \A m \in (entries[Len(entries)] + 1)..bt_index[bt_i] : ~ExitAt(m)
    /\ Len(results) = Len(exits)
    /\ detailPc = "done" =>
        /\ stats.Trades = Len(exits)
        /\ exits = <<>> => stats = NaNStats
        /\ exits # <<>> =>
            stats.WinPct = RoundHalfEven(
                1000 * Cardinality({k \in 1..Len(exits) :
                    Closes[exits[k]] > Closes[entries[k] - 1]}), Len(exits))

\* a finished backtest with one trade closed and one left open, the closed one
\* entered on a bar where the exit condition held already
C1_Witness ==
    /\ detailPc = "done"
    /\ Len(exits) = 1 /\ Len(entries) = 2
    /\ ExitAt(entries[1])
    /\ stats.Trades = 1

\* C8: in the output of compute_indicators, rsi14 and atr14 at zero-based bar
\* index k are undefined for every k < 14 and defined for every k >= 14.
C8_FirstDefinedAtIndex14 ==
    detailPc \in {"replay", "done"} =>
        \A k \in 0..(series_len(provided) - 1) :
            LET row == iloc(compute_indicators(bars(provided)), k + 1)
            IN  /\ k < 14 => row.rsi14.nan /\ IsNaN(row.atr14)
                /\ k >= 14 => ~row.rsi14.nan /\ ~IsNaN(row.atr14)

\* C9: when fewer than 60 rows remain after the indicators are computed and
\* the rows with an undefined sma20, sma50, sma200 or rsi14 are dropped, the
\* backtest replays no bar and returns the zero-trade stats.
C9_MinimumAfterDropna ==
    detailPc \in {"replay", "done"} =>
        LET remaining == Len(dropna(bars(provided), 1, series_len(provided)))
        IN  remaining < 60 =>
                /\ bt_i <= 1
                /\ detailPc = "done" => stats = NaNStats

-----------------------------------------------------------------------------
(* The specification of generate_signal_row called on its own *)

InitRow ==
    /\ rowIn \in SignalInputs \cup SizingInputs
    /\ rowOut = Pending
    /\ rowLocals = NoLocals
    /\ ScanAtRest
    /\ DetailAtRest

GenerateSignalRow ==
    /\ rowOut = Pending
    /\ rowOut' = generate_signal_row(<<"SYM">>, RowFrame(rowIn),
                                     rowIn.capital, rowIn.risk_pct)
    /\ rowLocals' = IF rowOut'.kind = "row"
                        THEN risk_management(rowIn.last.close, rowIn.last.atr14,
                                             rowIn.capital, rowIn.risk_pct)
                        ELSE NoLocals
    /\ UNCHANGED <<rowIn, sidebarVars, scanVars, detailVars>>

NextRow == GenerateSignalRow

SpecRow == InitRow /\ [][NextRow]_vars

-----------------------------------------------------------------------------
(* Claims on generate_signal_row and classify_trend (SpecRow) *)

RowProduced == rowOut.kind = "row"

SmasDefined ==
    ~IsNaN(rowIn.last.sma20) /\ ~IsNaN(rowIn.last.sma50) /\ ~IsNaN(rowIn.last.sma200)

\* C3: once the series has 30 bars (and the previous close is not zero, the
\* only thing that still aborts the call) a row is produced, and its signal is
\* the first match of: Momentum Long (Strong Uptrend, 55 <= rsi14 <= 75,
\* percent change > 0), Oversold Watch (rsi14 < 30, last close > sma200),
\* Avoid / Short Bias (Strong Downtrend, rsi14 < 45), No Trade; an undefined
\* rsi14 or sma200 gives a row with No Trade.
C3_SignalByFirstMatch ==
    rowOut # Pending =>
        LET last == rowIn.last
            rsi == last.rsi14
            momentum == /\ rowOut.Trend = "Strong Uptrend"
                        /\ RsiGe(rsi, 55) /\ RsiLe(rsi, 75)
                        /\ last.close > rowIn.prev.close
            oversold == /\ RsiLt(rsi, 30)
                        /\ ~IsNaN(last.sma200) /\ last.close > last.sma200
            avoid == rowOut.Trend = "Strong Downtrend" /\ RsiLt(rsi, 45)
        IN  /\ RowProduced <=> (rowIn.df_len >= 30 /\ rowIn.prev.close # 0)
            /\ RowProduced =>
                /\ rowOut.Signal =
                       IF momentum THEN "Momentum Long"
                       ELSE IF oversold THEN "Oversold Watch"
                       ELSE IF avoid THEN "Avoid / Short Bias"
                       ELSE "No Trade"
                /\ (rsi.nan \/ IsNaN(last.sma200)) => rowOut.Signal = "No Trade"

C3_Witness ==
    /\ RowProduced
    /\ rowOut.Signal = "Avoid / Short Bias"
    /\ ~rowIn.last.rsi14.nan

\* C4: with the three moving averages defined the trend is exactly one of the
\* five labels, the one of the first rule that matches; with any of them
\* undefined it is the insufficient-data label.
C4_TrendTotal ==
    RowProduced =>
        LET c == rowIn.last.close
            s20 == rowIn.last.sma20
            s50 == rowIn.last.sma50
            s200 == rowIn.last.sma200
            rule2 == c > s20 /\ s20 > s50 /\ s50 > s200
            rule3 == c > s20 /\ s20 > s50 /\ s200 <= s50
            rule4 == c < s20 /\ s20 < s50 /\ s50 < s200
            rule5 == c < s20 /\ s20 < s50
        IN  IF ~SmasDefined
                THEN rowOut.Trend = "No Trend (insufficient data)"
                ELSE /\ rowOut.Trend \in {"Strong Uptrend", "Uptrend", "Strong Downtrend",
                                          "Downtrend", "Sideways / Mixed"}
                     /\ rowOut.Trend = "Strong Uptrend" <=> rule2
                     /\ rowOut.Trend = "Uptrend" <=> (~rule2 /\ rule3)
                     /\ rowOut.Trend = "Strong Downtrend" <=>
                            (~rule2 /\ ~rule3 /\ rule4)
                     /\ rowOut.Trend = "Downtrend" <=>
                            (~rule2 /\ ~rule3 /\ ~rule4 /\ rule5)
                     /\ rowOut.Trend = "Sideways / Mixed" <=>
                            (~rule2 /\ ~rule3 /\ ~rule4 /\ ~rule5)

C4_Witness ==
    /\ RowProduced
    /\ SmasDefined
    /\ rowOut.Trend = "Strong Downtrend"

\* C5: the stop distance is atr14 when atr14 > 0 and 3% of the last close
\* otherwise (undefined atr14 included); stop = last close - stop distance; a
\* stop <= 0 gives risk 0 and size 0; otherwise risk = capital x risk fraction
\* and size = risk / (last close - stop) truncated toward zero.  Capital 25000,
\* risk 0.003, last close 100, atr14 2: stop 98, risk 75, size 37.
C5_StopAndSize ==
    RowProduced =>
        LET c == rowIn.last.close
            atr == rowIn.last.atr14
            dist == IF ~IsNaN(atr) /\ atr > 0 THEN atr ELSE (3 * c) \div 100
            stop == c - dist
            risk == rowIn.capital * rowIn.risk_pct
            k == rowOut.Size
        IN  /\ 100 * ((3 * c) \div 100) = 3 * c
            /\ rowLocals.stop_loss = stop
            /\ rowLocals.position_size = k
            /\ stop <= 0 => rowLocals.risk_dollars = 0 /\ k = 0
            /\ stop > 0 =>
                /\ rowLocals.risk_dollars = risk
                /\ k >= 0
                \* k <= risk / (c - stop) < k + 1, risk in thousandths of a
                \* dollar and c - stop in units
                /\ k * 1000 * (c - stop) <= risk * Unit
                /\ risk * Unit < (k + 1) * 1000 * (c - stop)
            /\ (/\ rowIn.capital = 25000 /\ rowIn.risk_pct = 3
                /\ c = 100 * Unit /\ atr = 2 * Unit) =>
                   /\ rowLocals.stop_loss = 98 * Unit
                   /\ rowLocals.risk_dollars = 75 * 1000
                   /\ k = 37

C5_Witness ==
    /\ RowProduced
    /\ rowIn.capital = 25000 /\ rowIn.risk_pct = 3
    /\ rowIn.last.close = 100 * Unit /\ rowIn.last.atr14 = 2 * Unit
    /\ rowOut.Size = 37

\* C11: the trend is Uptrend only when close > sma20 > sma50 and sma50 equals
\* sma200; with close > sma20 > sma50 and sma200 above sma50 it is Sideways /
\* Mixed; and it is Downtrend exactly when close < sma20 < sma50 and
\* sma200 <= sma50.
C11_UptrendOnlyOnEqualLongAverages ==
    RowProduced /\ SmasDefined =>
        LET c == rowIn.last.close
            s20 == rowIn.last.sma20
            s50 == rowIn.last.sma50
            s200 == rowIn.last.sma200
        IN  /\ rowOut.Trend = "Uptrend" => c > s20 /\ s20 > s50 /\ s50 = s200
            /\ c > s20 /\ s20 > s50 /\ s200 > s50 =>
                   rowOut.Trend = "Sideways / Mixed"
            /\ rowOut.Trend = "Downtrend" <=>
                   (c < s20 /\ s20 < s50 /\ s200 <= s50)

\* a rising stack under a higher sma200, labelled Sideways / Mixed
C11_Witness ==
    /\ RowProduced /\ SmasDefined
    /\ rowIn.last.close > rowIn.last.sma20
    /\ rowIn.last.sma20 > rowIn.last.sma50
    /\ rowIn.last.sma200 > rowIn.last.sma50
    /\ rowOut.Trend = "Sideways / Mixed"

====
